---- MODULE Spec2Model ----
(***************************************************************************)
(* Quoridor rules engine (src/src/quoridor.rs): the board geometry, the    *)
(* adjacency test, the jump resolver, the reachability check behind wall   *)
(* placement, and the Game operations, modelled as a state machine whose   *)
(* steps are calls of the public methods of Game.                          *)
(***************************************************************************)
EXTENDS Integers, FiniteSets, Sequences, TLC

VARIABLES players, walls, turn, nmoves, call, pc, held, since

vars == <<players, walls, turn, nmoves, call, pc, held, since>>

\* the state of the threads of the server
session == <<pc, held, since>>

(***************************************************************************)
(* Program constants                                                       *)
(***************************************************************************)
MAX_DIST == 100000
GAME_OVER == -2
GAME_NOT_STARTED == -2
I32_MAX == 2147483647
I32_MIN == -I32_MAX - 1

(***************************************************************************)
(* Bounds of the model.  N is the board side (the program is built with    *)
(* N = 9); MaxMoves caps the number of accepted pawn moves that are        *)
(* explored, MaxWalls the number of walls on the board.                    *)
(***************************************************************************)
N == 3
MaxMoves == 2
MaxWalls == 2

Names == {"a", "b"}
Keys == {"k1"}
None == [none |-> TRUE]

(***************************************************************************)
(* i32 arithmetic.  An operation whose mathematical result leaves the i32  *)
(* range panics in a debug build and wraps in a release build; the wrapped *)
(* value is computed here and the overflow is reported beside it.          *)
(***************************************************************************)
RustDiv(a, b) ==
    IF (a >= 0) = (b > 0) THEN (IF a >= 0 THEN a ELSE -a) \div (IF b > 0 THEN b ELSE -b)
    ELSE -((IF a >= 0 THEN a ELSE -a) \div (IF b > 0 THEN b ELSE -b))

RustRem(a, b) == a - b * RustDiv(a, b)

AddOverflows(a, b) ==
    \/ a > 0 /\ b > 0 /\ a > I32_MAX - b
    \/ a < 0 /\ b < 0 /\ a < I32_MIN - b

WrappingAdd(a, b) ==
    IF a > 0 /\ b > 0 /\ a > I32_MAX - b THEN (a + I32_MIN) + (b + I32_MIN)
    ELSE IF a < 0 /\ b < 0 /\ a < I32_MIN - b THEN (a - I32_MIN) + (b - I32_MIN)
    ELSE a + b

SubOverflows(a, b) ==
    \/ a >= 0 /\ b < 0 /\ a > I32_MAX + b
    \/ a < 0 /\ b > 0 /\ a < I32_MIN + b

WrappingSub(a, b) ==
    IF a >= 0 /\ b < 0 /\ a > I32_MAX + b THEN (a + I32_MIN) - (b - I32_MIN)
    ELSE IF a < 0 /\ b > 0 /\ a < I32_MIN + b THEN (a - I32_MIN) - (b + I32_MIN)
    ELSE a - b

AbsOverflows(a) == a = I32_MIN

WrappingAbs(a) == IF a = I32_MIN THEN I32_MIN ELSE IF a < 0 THEN -a ELSE a

(***************************************************************************)
(* Point                                                                   *)
(***************************************************************************)
p(x, y) == [x |-> x, y |-> y]

right(pt) == p(pt.x + 1, pt.y)
left(pt) == p(pt.x - 1, pt.y)
up(pt) == p(pt.x, pt.y - 1)
down(pt) == p(pt.x, pt.y + 1)

Abs(i) == IF i < 0 THEN -i ELSE i

Max(i, j) == IF i >= j THEN i ELSE j

\* inbounds with the far border included
Point_inbounds_closed(pt) == pt.x >= 0 /\ pt.x <= N /\ pt.y >= 0 /\ pt.y <= N

Point_inbounds(pt) == pt.x >= 0 /\ pt.x < N /\ pt.y >= 0 /\ pt.y < N

neighbors(a, b) ==
    \/ Abs(a.x - b.x) = 0 /\ Abs(a.y - b.y) = 1
    \/ Abs(a.y - b.y) = 0 /\ Abs(a.x - b.x) = 1

(***************************************************************************)
(* Wall                                                                    *)
(***************************************************************************)
horizontal(x, y) == [d |-> "Horizontal", x |-> x, y |-> y]
vertical(x, y) == [d |-> "Vertical", x |-> x, y |-> y]

\* inbounds with the border included
Wall_inbounds_closed(w) == w.x >= 0 /\ w.x <= N /\ w.y >= 0 /\ w.y <= N

Wall_inbounds(w) == w.x > 0 /\ w.x < N /\ w.y > 0 /\ w.y < N

shift(w, x, y) == [w EXCEPT !.x = w.x + x, !.y = w.y + y]

rotate(w) == [w EXCEPT !.d = IF w.d = "Vertical" THEN "Horizontal" ELSE "Vertical"]

to_tuples(w) ==
    IF w.d = "Vertical" THEN <<<<w.x, w.y - 1>>, <<w.x, w.y + 1>>>>
    ELSE <<<<w.x - 1, w.y>>, <<w.x + 1, w.y>>>>

\* Result<Wall, String>: ok and the wall, or the error; overflow is TRUE when an
\* i32 operation evaluated on the way overflowed (a panic in a debug build).
from_tuples(a, b) ==
    LET dx == WrappingSub(a[1], b[1])
        dy == WrappingSub(a[2], b[2])
        ovx == SubOverflows(a[1], b[1]) \/ AbsOverflows(dx)
        ovy == SubOverflows(a[2], b[2]) \/ AbsOverflows(dy)
    IN  IF a[2] = b[2] /\ WrappingAbs(dx) = 2
        THEN [ok |-> TRUE,
              wall |-> horizontal(RustDiv(WrappingAdd(a[1], b[1]), 2), a[2]),
              overflow |-> ovx \/ AddOverflows(a[1], b[1])]
        ELSE IF a[1] = b[1] /\ WrappingAbs(dy) = 2
        THEN [ok |-> TRUE,
              wall |-> vertical(a[1], RustDiv(WrappingAdd(a[2], b[2]), 2)),
              overflow |-> (a[2] = b[2] /\ ovx) \/ ovy \/ AddOverflows(a[2], b[2])]
        ELSE [ok |-> FALSE,
              wall |-> None,
              overflow |-> (a[2] = b[2] /\ ovx) \/ (a[1] = b[1] /\ ovy)]

(***************************************************************************)
(* Game: the record g = [players, walls, turn] stands for a Game value;    *)
(* the operators below are the methods of Game, with g for self.           *)
(***************************************************************************)
Points == {p(x, y) : x \in 0..(N - 1), y \in 0..(N - 1)}

Ok == "Ok"

IsOk(r) == r = Ok

\* get_player_at_position(p).is_ok()
get_player_at_position(g, pt) == \E n \in DOMAIN g.players : g.players[n].p = pt

\* has_wall_between that anchors the test wall at a instead of the larger coordinate
has_wall_between_from_a(g, a, b) ==
    IF ~neighbors(a, b) THEN FALSE
    ELSE IF a.y = b.y
    THEN LET test_wall == vertical(a.x, a.y)
         IN  test_wall \in g.walls \/ shift(test_wall, 0, 1) \in g.walls
    ELSE IF a.x = b.x
    THEN LET test_wall == horizontal(a.x, a.y)
         IN  test_wall \in g.walls \/ shift(test_wall, 1, 0) \in g.walls
    ELSE FALSE

\* has_wall_between without the test of the shifted wall
has_wall_between_unshifted(g, a, b) ==
    IF ~neighbors(a, b) THEN FALSE
    ELSE IF a.y = b.y THEN vertical(Max(a.x, b.x), a.y) \in g.walls
    ELSE IF a.x = b.x THEN horizontal(a.x, Max(a.y, b.y)) \in g.walls
    ELSE FALSE

has_wall_between(g, a, b) ==
    IF ~neighbors(a, b) THEN FALSE
    ELSE IF a.y = b.y
    THEN LET test_wall == vertical(Max(a.x, b.x), a.y)
         IN  test_wall \in g.walls \/ shift(test_wall, 0, 1) \in g.walls
    ELSE IF a.x = b.x
    THEN LET test_wall == horizontal(a.x, Max(a.y, b.y))
         IN  test_wall \in g.walls \/ shift(test_wall, 1, 0) \in g.walls
    ELSE FALSE

\* is_valid_jump whose linear jump does not ask for a pawn on the midpoint
is_valid_jump_no_pawn(g, a, b) ==
    LET dx == b.x - a.x
        dy == b.y - a.y
        horizontal_jump == Abs(dy) = 2 /\ dx = 0
        vertical_jump == dy = 0 /\ Abs(dx) = 2
        linear_jump == horizontal_jump \/ vertical_jump
        corner_jump == Abs(dx) = 1 /\ Abs(dy) = 1
    IN  IF linear_jump
        THEN LET them_pos == p(b.x - RustDiv(dx, 2), b.y - RustDiv(dy, 2))
                 occupied == get_player_at_position(g, them_pos)
                 step1 == ~has_wall_between(g, a, them_pos)
                 step2 == ~has_wall_between(g, them_pos, b)
             IN  IF step1 /\ step2 THEN Ok ELSE "Invalid linear jump."
        ELSE IF corner_jump
        THEN LET path1 == get_player_at_position(g, p(b.x, a.y))
                 back_wall1 == has_wall_between(g, p(b.x, a.y), p(b.x + dx, a.y))
                 step1a == ~has_wall_between(g, a, p(a.x + dx, a.y))
                 step2a == ~has_wall_between(g, p(a.x + dx, a.y), b)
                 path2 == get_player_at_position(g, p(a.x, b.y))
                 back_wall2 == has_wall_between(g, p(a.x, b.y), p(a.x, b.y + dy))
                 step1b == ~has_wall_between(g, a, p(a.x, a.y + dy))
                 step2b == ~has_wall_between(g, p(a.x, a.y + dy), b)
             IN  IF path1 /\ back_wall1 /\ step1a /\ step2a THEN Ok
                 ELSE IF path2 /\ back_wall2 /\ step1b /\ step2b THEN Ok
                 ELSE "Invalid corner jump."
        ELSE "This doesn't even look like a jump."

\* is_valid_jump whose linear jump does not look for a wall behind the pawn
is_valid_jump_no_step2(g, a, b) ==
    LET dx == b.x - a.x
        dy == b.y - a.y
        horizontal_jump == Abs(dy) = 2 /\ dx = 0
        vertical_jump == dy = 0 /\ Abs(dx) = 2
        linear_jump == horizontal_jump \/ vertical_jump
        corner_jump == Abs(dx) = 1 /\ Abs(dy) = 1
    IN  IF linear_jump
        THEN LET them_pos == p(b.x - RustDiv(dx, 2), b.y - RustDiv(dy, 2))
                 occupied == get_player_at_position(g, them_pos)
                 step1 == ~has_wall_between(g, a, them_pos)
                 step2 == ~has_wall_between(g, them_pos, b)
             IN  IF step1 /\ occupied THEN Ok ELSE "Invalid linear jump."
        ELSE IF corner_jump
        THEN LET path1 == get_player_at_position(g, p(b.x, a.y))
                 back_wall1 == has_wall_between(g, p(b.x, a.y), p(b.x + dx, a.y))
                 step1a == ~has_wall_between(g, a, p(a.x + dx, a.y))
                 step2a == ~has_wall_between(g, p(a.x + dx, a.y), b)
                 path2 == get_player_at_position(g, p(a.x, b.y))
                 back_wall2 == has_wall_between(g, p(a.x, b.y), p(a.x, b.y + dy))
                 step1b == ~has_wall_between(g, a, p(a.x, a.y + dy))
                 step2b == ~has_wall_between(g, p(a.x, a.y + dy), b)
             IN  IF path1 /\ back_wall1 /\ step1a /\ step2a THEN Ok
                 ELSE IF path2 /\ back_wall2 /\ step1b /\ step2b THEN Ok
                 ELSE "Invalid corner jump."
        ELSE "This doesn't even look like a jump."

\* is_valid_jump whose corner jump does not ask for a wall behind the pawn
is_valid_jump_no_back_wall(g, a, b) ==
    LET dx == b.x - a.x
        dy == b.y - a.y
        horizontal_jump == Abs(dy) = 2 /\ dx = 0
        vertical_jump == dy = 0 /\ Abs(dx) = 2
        linear_jump == horizontal_jump \/ vertical_jump
        corner_jump == Abs(dx) = 1 /\ Abs(dy) = 1
    IN  IF linear_jump
        THEN LET them_pos == p(b.x - RustDiv(dx, 2), b.y - RustDiv(dy, 2))
                 occupied == get_player_at_position(g, them_pos)
                 step1 == ~has_wall_between(g, a, them_pos)
                 step2 == ~has_wall_between(g, them_pos, b)
             IN  IF step1 /\ occupied /\ step2 THEN Ok ELSE "Invalid linear jump."
        ELSE IF corner_jump
        THEN LET path1 == get_player_at_position(g, p(b.x, a.y))
                 back_wall1 == has_wall_between(g, p(b.x, a.y), p(b.x + dx, a.y))
                 step1a == ~has_wall_between(g, a, p(a.x + dx, a.y))
                 step2a == ~has_wall_between(g, p(a.x + dx, a.y), b)
                 path2 == get_player_at_position(g, p(a.x, b.y))
                 back_wall2 == has_wall_between(g, p(a.x, b.y), p(a.x, b.y + dy))
                 step1b == ~has_wall_between(g, a, p(a.x, a.y + dy))
                 step2b == ~has_wall_between(g, p(a.x, a.y + dy), b)
             IN  IF path1 /\ step1a /\ step2a THEN Ok
                 ELSE IF path2 /\ step1b /\ step2b THEN Ok
                 ELSE "Invalid corner jump."
        ELSE "This doesn't even look like a jump."

is_valid_jump(g, a, b) ==
    LET dx == b.x - a.x
        dy == b.y - a.y
        horizontal_jump == Abs(dy) = 2 /\ dx = 0
        vertical_jump == dy = 0 /\ Abs(dx) = 2
        linear_jump == horizontal_jump \/ vertical_jump
        corner_jump == Abs(dx) = 1 /\ Abs(dy) = 1
    IN  IF linear_jump
        THEN LET them_pos == p(b.x - RustDiv(dx, 2), b.y - RustDiv(dy, 2))
                 occupied == get_player_at_position(g, them_pos)
                 step1 == ~has_wall_between(g, a, them_pos)
                 step2 == ~has_wall_between(g, them_pos, b)
             IN  IF step1 /\ occupied /\ step2 THEN Ok ELSE "Invalid linear jump."
        ELSE IF corner_jump
        THEN LET path1 == get_player_at_position(g, p(b.x, a.y))
                 back_wall1 == has_wall_between(g, p(b.x, a.y), p(b.x + dx, a.y))
                 step1a == ~has_wall_between(g, a, p(a.x + dx, a.y))
                 step2a == ~has_wall_between(g, p(a.x + dx, a.y), b)
                 path2 == get_player_at_position(g, p(a.x, b.y))
                 back_wall2 == has_wall_between(g, p(a.x, b.y), p(a.x, b.y + dy))
                 step1b == ~has_wall_between(g, a, p(a.x, a.y + dy))
                 step2b == ~has_wall_between(g, p(a.x, a.y + dy), b)
             IN  IF path1 /\ back_wall1 /\ step1a /\ step2a THEN Ok
                 ELSE IF path2 /\ back_wall2 /\ step1b /\ step2b THEN Ok
                 ELSE "Invalid corner jump."
        ELSE "This doesn't even look like a jump."

adj(g, a, b) ==
    IF ~Point_inbounds(a) THEN "Point a is not in bounds"
    ELSE IF ~Point_inbounds(b) THEN "Point b is not in bounds"
    ELSE IF a = b THEN "a and b are the same point"
    ELSE IF ~neighbors(a, b) THEN is_valid_jump(g, a, b)
    ELSE IF get_player_at_position(g, b) THEN "Position b is not empty."
    ELSE IF has_wall_between(g, a, b) THEN "There is a wall between a and b."
    ELSE Ok

(***************************************************************************)
(* dijkstra: the distance map.  The loop removes one node of least         *)
(* distance from the unvisited set per round (the first node met when all  *)
(* remaining distances are MAX_DIST) and relaxes the 5 x 5 window round it.*)
(***************************************************************************)
in_window(u, v) == Abs(v.x - u.x) <= 2 /\ Abs(v.y - u.y) <= 2

\* a relaxation that does not ask adj
relax_unchecked(g, dist, u) ==
    [v \in Points |->
        IF in_window(u, v) /\ dist[u] + 1 < dist[v] THEN dist[u] + 1 ELSE dist[v]]

\* alt < dist[v] is tested before adj: the two tests have no side effect.
relax(g, dist, u) ==
    [v \in Points |->
        IF in_window(u, v) /\ dist[u] + 1 < dist[v] /\ IsOk(adj(g, u, v))
        THEN dist[u] + 1 ELSE dist[v]]

least(S) == CHOOSE m \in S : \A k \in S : m <= k

pick_min(dist, nodes) ==
    LET min == least({dist[n] : n \in nodes} \cup {MAX_DIST})
    IN  IF min < MAX_DIST THEN CHOOSE u \in nodes : dist[u] = min
        ELSE CHOOSE u \in nodes : TRUE

\* st = [dist, nodes]: the distance map and the unvisited set before a round.
RECURSIVE dijkstra_loop(_, _)
dijkstra_loop(g, st) ==
    IF st.nodes = {} THEN st.dist
    ELSE LET u == pick_min(st.dist, st.nodes)
         IN  dijkstra_loop(g, [dist |-> relax(g, st.dist, u), nodes |-> st.nodes \ {u}])

dijkstra(g, src) ==
    dijkstra_loop(g, [dist |-> [v \in Points |-> IF v = src THEN 0 ELSE MAX_DIST],
                      nodes |-> Points])

\* dist holds an entry for every cell (DOMAIN d = Points).
check_win_condition(g, name) ==
    LET pl == g.players[name]
        d == dijkstra(g, pl.p)
    IN  /\ DOMAIN d = Points
        /\ IF pl.id = 0 THEN \E i \in 0..(N - 1) : d[p(i, N - 1)] < MAX_DIST
           ELSE IF pl.id = 1 THEN \E i \in 0..(N - 1) : d[p(i, 0)] < MAX_DIST
           ELSE FALSE

(***************************************************************************)
(* Wall placement.  is_valid_wall takes &mut self: it inserts the wall,    *)
(* runs the path check of every player and removes the wall again; its     *)
(* result is the verdict together with the game it leaves behind.          *)
(***************************************************************************)
\* the collision test without the wall shifted forward along its axis
collides_one_side(g, wall) ==
    IF wall.d = "Vertical"
    THEN \/ rotate(wall) \in g.walls
         \/ shift(wall, 0, -1) \in g.walls
    ELSE \/ rotate(wall) \in g.walls
         \/ shift(wall, -1, 0) \in g.walls

collides(g, wall) ==
    IF wall.d = "Vertical"
    THEN \/ rotate(wall) \in g.walls
         \/ shift(wall, 0, -1) \in g.walls
         \/ shift(wall, 0, 1) \in g.walls
    ELSE \/ rotate(wall) \in g.walls
         \/ shift(wall, -1, 0) \in g.walls
         \/ shift(wall, 1, 0) \in g.walls

\* is_valid_wall that returns on a failed path check before removing the wall
is_valid_wall_keeps_wall(g, wall) ==
    IF ~Wall_inbounds(wall) THEN [ok |-> FALSE, game |-> g, why |-> "Out of bounds"]
    ELSE IF wall \in g.walls THEN [ok |-> FALSE, game |-> g, why |-> "Wall exists"]
    ELSE IF collides(g, wall) THEN [ok |-> FALSE, game |-> g, why |-> "Wall collision"]
    ELSE LET inserted == [g EXCEPT !.walls = g.walls \cup {wall}]
             win_conditions ==
                 \A i \in DOMAIN inserted.players : check_win_condition(inserted, i)
             removed == [inserted EXCEPT !.walls = inserted.walls \ {wall}]
         IN  IF ~win_conditions
             THEN [ok |-> FALSE, game |-> inserted, why |-> "Wall eliminates path"]
             ELSE [ok |-> TRUE, game |-> removed, why |-> "valid"]

is_valid_wall(g, wall) ==
    IF ~Wall_inbounds(wall) THEN [ok |-> FALSE, game |-> g, why |-> "Out of bounds"]
    ELSE IF wall \in g.walls THEN [ok |-> FALSE, game |-> g, why |-> "Wall exists"]
    ELSE IF collides(g, wall) THEN [ok |-> FALSE, game |-> g, why |-> "Wall collision"]
    ELSE LET inserted == [g EXCEPT !.walls = g.walls \cup {wall}]
             win_conditions ==
                 \A i \in DOMAIN inserted.players : check_win_condition(inserted, i)
             removed == [inserted EXCEPT !.walls = inserted.walls \ {wall}]
         IN  IF ~win_conditions
             THEN [ok |-> FALSE, game |-> removed, why |-> "Wall eliminates path"]
             ELSE [ok |-> TRUE, game |-> removed, why |-> "valid"]

add_wall(g, wall) ==
    LET v == is_valid_wall(g, wall)
    IN  IF v.ok
        THEN [ok |-> TRUE, msg |-> "Added wall.", panic |-> FALSE,
              game |-> [v.game EXCEPT !.walls = v.game.walls \cup {wall}]]
        ELSE [ok |-> FALSE, msg |-> "Invalid wall.", panic |-> FALSE, game |-> v.game]

add_wall_tuples(g, a, b) ==
    LET w == from_tuples(a, b)
    IN  IF w.ok THEN add_wall(g, w.wall)
        ELSE [ok |-> FALSE, msg |-> "Invalid wall", panic |-> FALSE, game |-> g]

(***************************************************************************)
(* Registration and turns                                                  *)
(***************************************************************************)
has_won(pl) ==
    \/ pl.id # 1 /\ pl.p.y < 0
    \/ pl.id # 2 /\ pl.p.x < 0
    \/ pl.id # 0 /\ pl.p.y >= N
    \/ pl.id # 3 /\ pl.p.y >= N

len(g) == Cardinality(DOMAIN g.players)

\* start_game with the two allowances exchanged
start_game_swapped(g) ==
    LET allowance == IF len(g) = 4 THEN 10 ELSE IF len(g) = 2 THEN 5 ELSE 0
    IN  [g EXCEPT !.turn = 0,
                  !.players = [n \in DOMAIN g.players |->
                      IF len(g) = 4 \/ len(g) = 2
                      THEN [g.players[n] EXCEPT !.walls = allowance]
                      ELSE g.players[n]]]

start_game(g) ==
    LET allowance == IF len(g) = 4 THEN 5 ELSE IF len(g) = 2 THEN 10 ELSE 0
    IN  [g EXCEPT !.turn = 0,
                  !.players = [n \in DOMAIN g.players |->
                      IF len(g) = 4 \/ len(g) = 2
                      THEN [g.players[n] EXCEPT !.walls = allowance]
                      ELSE g.players[n]]]

\* next_turn without the remainder by the number of players
next_turn_no_rem(g) ==
    IF len(g) = 0
    THEN [ok |-> FALSE, msg |-> "remainder with a divisor of zero", panic |-> TRUE,
          game |-> g]
    ELSE [ok |-> TRUE, msg |-> "", panic |-> FALSE,
          game |-> [g EXCEPT !.turn = g.turn + 1]]

\* next_turn stepping to the previous player instead of the next
next_turn_backwards(g) ==
    IF len(g) = 0
    THEN [ok |-> FALSE, msg |-> "remainder with a divisor of zero", panic |-> TRUE,
          game |-> g]
    ELSE [ok |-> TRUE, msg |-> "", panic |-> FALSE,
          game |-> [g EXCEPT !.turn = RustRem(g.turn - 1, len(g))]]

\* The loop over has_won only evaluates the comparison self.turn == GAME_OVER.
next_turn(g) ==
    IF len(g) = 0
    THEN [ok |-> FALSE, msg |-> "remainder with a divisor of zero", panic |-> TRUE,
          game |-> g]
    ELSE [ok |-> TRUE, msg |-> "", panic |-> FALSE,
          game |-> [g EXCEPT !.turn = RustRem(g.turn + 1, len(g))]]

starting_positions ==
    <<p(RustDiv(N, 2), 0), p(RustDiv(N, 2), N - 1),
      p(0, RustDiv(N, 2)), p(N - 1, RustDiv(N, 2))>>

\* add_player without the test for a registered name
add_player_overwrites(g, name, key) ==
    IF g.turn >= 0
    THEN [ok |-> FALSE, msg |-> "Game already started", panic |-> FALSE, game |-> g]
    ELSE IF len(g) >= 2
    THEN [ok |-> FALSE, msg |-> "Attempt to register 3rd player.", panic |-> FALSE,
          game |-> g]
    ELSE LET i == len(g)
             player == [p |-> starting_positions[i + 1], p_last |-> None, key |-> key,
                        id |-> i, walls |-> 0, name |-> name]
             added == [g EXCEPT !.players =
                          [n \in DOMAIN g.players \cup {name} |->
                              IF n = name THEN player ELSE g.players[n]]]
         IN  [ok |-> TRUE, msg |-> "Added player", panic |-> FALSE,
              game |-> IF len(added) = 2 THEN start_game(added) ELSE added]

add_player(g, name, key) ==
    IF g.turn >= 0
    THEN [ok |-> FALSE, msg |-> "Game already started", panic |-> FALSE, game |-> g]
    ELSE IF name \in DOMAIN g.players
    THEN [ok |-> FALSE, msg |-> "Player already registered.", panic |-> FALSE, game |-> g]
    ELSE IF len(g) >= 2
    THEN [ok |-> FALSE, msg |-> "Attempt to register 3rd player.", panic |-> FALSE,
          game |-> g]
    ELSE LET i == len(g)
             player == [p |-> starting_positions[i + 1], p_last |-> None, key |-> key,
                        id |-> i, walls |-> 0, name |-> name]
             added == [g EXCEPT !.players =
                          [n \in DOMAIN g.players \cup {name} |->
                              IF n = name THEN player ELSE g.players[n]]]
         IN  [ok |-> TRUE, msg |-> "Added player", panic |-> FALSE,
              game |-> IF len(added) = 2 THEN start_game(added) ELSE added]

(***************************************************************************)
(* Pawn moves                                                              *)
(***************************************************************************)
\* move_player_to that records the last position before the move is judged
move_player_to_marks_last(g, name, pos) ==
    IF name \notin DOMAIN g.players
    THEN [ok |-> FALSE, msg |-> "Player not found.", panic |-> FALSE, game |-> g]
    ELSE LET start == g.players[name].p
             a == adj(g, start, pos)
             marked == [g EXCEPT !.players[name].p_last = g.players[name].p]
         IN  IF IsOk(a)
             THEN [ok |-> TRUE, msg |-> "Moved player", panic |-> FALSE,
                   game |-> [marked EXCEPT !.players[name].p = pos]]
             ELSE [ok |-> FALSE, msg |-> a, panic |-> FALSE, game |-> marked]

move_player_to(g, name, pos) ==
    IF name \notin DOMAIN g.players
    THEN [ok |-> FALSE, msg |-> "Player not found.", panic |-> FALSE, game |-> g]
    ELSE LET start == g.players[name].p
             a == adj(g, start, pos)
         IN  IF IsOk(a)
             THEN [ok |-> TRUE, msg |-> "Moved player", panic |-> FALSE,
                   game |-> [g EXCEPT !.players[name].p_last = g.players[name].p,
                                      !.players[name].p = pos]]
             ELSE [ok |-> FALSE, msg |-> a, panic |-> FALSE, game |-> g]

to_uppercase(dir) ==
    IF dir = "up" THEN "UP" ELSE IF dir = "down" THEN "DOWN"
    ELSE IF dir = "left" THEN "LEFT" ELSE IF dir = "right" THEN "RIGHT" ELSE dir

\* self.players[&name] panics when the name is not registered.
move_player(g, name, dir) ==
    IF name \notin DOMAIN g.players
    THEN [ok |-> FALSE, msg |-> "index: key not found", panic |-> TRUE, game |-> g]
    ELSE LET pt == g.players[name].p
             d == to_uppercase(dir)
         IN  IF d = "UP" THEN move_player_to(g, name, up(pt))
             ELSE IF d = "DOWN" THEN move_player_to(g, name, down(pt))
             ELSE IF d = "LEFT" THEN move_player_to(g, name, left(pt))
             ELSE IF d = "RIGHT" THEN move_player_to(g, name, right(pt))
             ELSE [ok |-> FALSE, msg |-> "Unknown direction", panic |-> FALSE, game |-> g]

\* Game::new
new == [players |-> <<>>, walls |-> {}, turn |-> GAME_NOT_STARTED]

(***************************************************************************)
(* Game::to_json and Game::from_json.  The document is the JSON object:    *)
(* its arrays "walls" and "players" are built by iterating a HashSet and a *)
(* HashMap, so their order is not fixed and they are kept as sets.         *)
(***************************************************************************)
Player_to_json(pl) ==
    [position |-> <<pl.p.x, pl.p.y>>, id |-> pl.id, walls |-> pl.walls, name |-> pl.name]

to_json(g) ==
    [turn |-> g.turn,
     size |-> N,
     walls |-> {to_tuples(w) : w \in g.walls},
     players |-> {Player_to_json(g.players[n]) : n \in DOMAIN g.players}]

\* Json::as_u64 of a number: None when it is negative
as_u64(n) == IF n >= 0 THEN [some |-> TRUE, v |-> n] ELSE [some |-> FALSE, v |-> 0]

\* from_json unwraps as_u64 of the turn and of each player's position, id and
\* walls; it reads "turn" and "players" and nothing else of the document.
from_json(doc) ==
    LET numbers == {doc.turn}
                     \cup UNION {{pl.position[1], pl.position[2], pl.id, pl.walls} :
                                    pl \in doc.players}
        names == {pl.name : pl \in doc.players}
        last(name) == CHOOSE pl \in doc.players : pl.name = name
    IN  IF \E n \in numbers : ~as_u64(n).some
        THEN [ok |-> FALSE, panic |-> TRUE, game |-> new]
        ELSE [ok |-> TRUE, panic |-> FALSE,
              game |-> [turn |-> doc.turn,
                        walls |-> new.walls,
                        players |-> [n \in names |->
                            [p |-> p(last(n).position[1], last(n).position[2]),
                             id |-> last(n).id % 256,
                             p_last |-> None,
                             key |-> "",
                             walls |-> last(n).walls % 256,
                             name |-> n]]]]

(***************************************************************************)
(* The state machine: one step per call of a public method of Game.        *)
(* A call that returns an error leaves the step a stuttering one.           *)
(***************************************************************************)
Game == [players |-> players, walls |-> walls, turn |-> turn]

Coords == 0..N
TuplePoints == Coords \X Coords
PosInputs == {p(x, y) : x \in -1..N, y \in -1..N}
WallInputs == {[d |-> d, x |-> x, y |-> y] :
                  d \in {"Horizontal", "Vertical"}, x \in 0..N, y \in 0..N}
Dirs == {"UP", "DOWN", "LEFT", "RIGHT", "down", "SIDEWAYS"}

Set(g) ==
    /\ players' = g.players
    /\ walls' = g.walls
    /\ turn' = g.turn

\* The threads of the server: those serving mutating requests, those serving
\* /state and /ascii, and those serving /wait_for_activity.
Mutators == {"m1", "m2"}
Readers == {"r1", "r2"}
Waiters == {"w1", "w2"}
Threads == Mutators \cup Readers \cup Waiters

\* no wall is inserted for the check of is_valid_wall
NoHeld == [name |-> "", wall |-> [d |-> "None", x |-> 0, y |-> 0]]

InitSession ==
    /\ pc = [t \in Threads |-> "idle"]
    /\ held = NoHeld
    /\ since = [w \in Waiters |-> "no"]

Init ==
    /\ players = new.players
    /\ walls = new.walls
    /\ turn = new.turn
    /\ nmoves = 0
    /\ call = None
    /\ InitSession

AddPlayer(name, key) ==
    LET r == add_player(Game, name, key)
    IN  /\ Set(r.game)
        /\ UNCHANGED <<nmoves, call, session>>

MovePlayerTo(name, pos) ==
    LET r == move_player_to(Game, name, pos)
    IN  /\ r.ok => nmoves < MaxMoves
        /\ Set(r.game)
        /\ nmoves' = IF r.ok THEN nmoves + 1 ELSE nmoves
        /\ UNCHANGED <<call, session>>

MovePlayer(name, dir) ==
    LET r == move_player(Game, name, dir)
    IN  /\ r.ok => nmoves < MaxMoves
        /\ Set(r.game)
        /\ nmoves' = IF r.ok THEN nmoves + 1 ELSE nmoves
        /\ UNCHANGED <<call, session>>

AddWall(wall) ==
    LET r == add_wall(Game, wall)
    IN  /\ r.ok => Cardinality(walls) < MaxWalls
        /\ Set(r.game)
        /\ UNCHANGED <<nmoves, call, session>>

NextTurn ==
    LET r == next_turn(Game)
    IN  /\ Set(r.game)
        /\ UNCHANGED <<nmoves, call, session>>

Next ==
    \/ \E name \in Names, key \in Keys : AddPlayer(name, key)
    \/ \E name \in Names, pos \in PosInputs : MovePlayerTo(name, pos)
    \/ \E name \in Names, dir \in Dirs : MovePlayer(name, dir)
    \/ \E wall \in WallInputs : AddWall(wall)
    \/ NextTurn

Spec == Init /\ [][Next]_vars

(***************************************************************************)
(* Wall::from_tuples and Wall::to_tuples as pure functions of i32 values.  *)
(* call holds the arguments of one call and, once it has run, its outcome. *)
(* The arguments range over coordinates near 0 and near both ends of i32.  *)
(* An overflowing i32 operation panics in a debug build and wraps in a     *)
(* release build: the build is chosen with the call.                       *)
(***************************************************************************)
I32Coords == {I32_MIN, I32_MIN + 2, -1, 0, 1, 2, 3, I32_MAX - 2, I32_MAX}
I32Tuples == I32Coords \X I32Coords
\* anchors for which to_tuples itself stays inside i32
I32Walls == {[d |-> d, x |-> x, y |-> y] :
                d \in {"Horizontal", "Vertical"},
                x \in {-1, 1, 2, I32_MAX - 1}, y \in {-1, 1, 2, I32_MAX - 1}}
Builds == {"debug", "release"}
\* fillers for the fields of call a function does not use
NoTuple == <<0, 0>>
NoWall == [d |-> "None", x |-> 0, y |-> 0]

outcome(build, r) ==
    IF r.overflow /\ build = "debug"
    THEN [ok |-> FALSE, wall |-> None, panic |-> TRUE]
    ELSE [ok |-> r.ok, wall |-> r.wall, panic |-> FALSE]

InitWall ==
    /\ players = new.players
    /\ walls = new.walls
    /\ turn = new.turn
    /\ nmoves = 0
    /\ call \in {[fn |-> "from_tuples", a |-> a, b |-> b, w |-> NoWall, out |-> None] :
                    a \in I32Tuples, b \in I32Tuples}
           \cup {[fn |-> "round_trip", a |-> NoTuple, b |-> NoTuple, w |-> w, out |-> None] :
                    w \in I32Walls}
    /\ InitSession

FromTuples(build) ==
    /\ call.fn = "from_tuples"
    /\ call.out = None
    /\ call' = [call EXCEPT !.out = outcome(build, from_tuples(call.a, call.b))]
    /\ UNCHANGED <<players, walls, turn, nmoves, session>>

RoundTrip(build) ==
    /\ call.fn = "round_trip"
    /\ call.out = None
    /\ call' = [call EXCEPT !.a = to_tuples(call.w)[1],
                            !.b = to_tuples(call.w)[2],
                            !.out = outcome(build, from_tuples(to_tuples(call.w)[1],
                                                               to_tuples(call.w)[2]))]
    /\ UNCHANGED <<players, walls, turn, nmoves, session>>

NextWall ==
    \/ \E build \in Builds : FromTuples(build)
    \/ \E build \in Builds : RoundTrip(build)

SpecWall == InitWall /\ [][NextWall]_vars

(***************************************************************************)
(* The board as the claims describe it: the unit edges a wall lies across, *)
(* and the cells a pawn can reach by unit steps that cross no wall, pawns  *)
(* ignored.                                                                *)
(***************************************************************************)
\* A vertical wall anchored at (x, y) runs from (x, y-1) to (x, y+1): it lies
\* between columns x-1 and x in rows y-1 and y.  A horizontal wall runs from
\* (x-1, y) to (x+1, y): it lies between rows y-1 and y in columns x-1 and x.
blocks(w, a, b) ==
    IF w.d = "Vertical"
    THEN a.y = b.y /\ a.y \in {w.y - 1, w.y} /\ {a.x, b.x} = {w.x - 1, w.x}
    ELSE a.x = b.x /\ a.x \in {w.x - 1, w.x} /\ {a.y, b.y} = {w.y - 1, w.y}

crossed(ws, a, b) == \E w \in ws : blocks(w, a, b)

unit_step(a, b) == Abs(a.x - b.x) + Abs(a.y - b.y) = 1

RECURSIVE reach(_, _)
reach(ws, S) ==
    LET T == S \cup {v \in Points : \E u \in S : unit_step(u, v) /\ ~crossed(ws, u, v)}
    IN  IF T = S THEN S ELSE reach(ws, T)

goal_edge(id) ==
    IF id = 0 THEN {p(i, N - 1) : i \in 0..(N - 1)}
    ELSE IF id = 1 THEN {p(i, 0) : i \in 0..(N - 1)}
    ELSE {}

has_open_path(ws, pl) == reach(ws, {pl.p}) \cap goal_edge(pl.id) # {}

occupied(pt) == \E n \in DOMAIN players : players[n].p = pt

collide_pair(w1, w2) ==
    /\ w1 # w2
    /\ \/ w1.x = w2.x /\ w1.y = w2.y
       \/ w1.d = "Vertical" /\ w2.d = "Vertical" /\ w1.x = w2.x /\ Abs(w1.y - w2.y) = 1
       \/ w1.d = "Horizontal" /\ w2.d = "Horizontal" /\ w1.y = w2.y /\ Abs(w1.x - w2.x) = 1

interior(w) == 0 < w.x /\ w.x < N /\ 0 < w.y /\ w.y < N

\* C1: every registered player has a path of unit steps that crosses no wall
\* (pawns ignored) from its position to a cell of its goal edge, in every state
\* reached by add_player, move_player / move_player_to and add_wall calls.
C1_EveryPlayerHasOpenPath ==
    \A n \in DOMAIN players : has_open_path(walls, players[n])

\* C2: an in-bounds, non-colliding, new wall is accepted by add_wall if and only
\* if every registered player keeps a wall-respecting path to its goal edge with
\* the wall inserted, the paths computed with pawns ignored.
C2_AcceptedIffOpenPaths ==
    \A w \in WallInputs :
        (Wall_inbounds(w) /\ w \notin walls /\ ~collides(Game, w))
            => (add_wall(Game, w).ok
                    <=> \A n \in DOMAIN players : has_open_path(walls \cup {w}, players[n]))

\* C3: is_valid_wall leaves the game as it was whatever its verdict, and an
\* add_wall call that returns an error leaves the walls, every player's record
\* and the turn unchanged.
C3_RejectedWallLeavesGame ==
    \A w \in WallInputs :
        /\ is_valid_wall(Game, w).game = Game
        /\ ~add_wall(Game, w).ok => add_wall(Game, w).game = Game

\* C3 witness: players are registered, walls stand, and some wall is refused
\* because it would cut a player off: the tentative insertion was rolled back.
C3_Witness ==
    /\ DOMAIN players # {}
    /\ walls # {}
    /\ \E w \in WallInputs : /\ is_valid_wall(Game, w).why = "Wall eliminates path"
                             /\ add_wall(Game, w).game = Game

\* C4: the walls set holds no colliding pair, and add_wall_tuples refuses a wall
\* that collides with a standing wall, in either order of its endpoints.
C4_NoCollidingPair ==
    /\ \A w1 \in walls, w2 \in walls : ~collide_pair(w1, w2)
    /\ \A a \in TuplePoints, b \in TuplePoints :
           LET w == from_tuples(a, b)
           IN  (w.ok /\ \E w2 \in walls : collide_pair(w.wall, w2))
                   => /\ ~add_wall_tuples(Game, a, b).ok
                      /\ ~add_wall_tuples(Game, b, a).ok

\* C4 witness: a wall stands and a request for a wall colliding with it is refused.
C4_Witness ==
    \E a \in TuplePoints, b \in TuplePoints :
        /\ from_tuples(a, b).ok
        /\ \E w2 \in walls : collide_pair(from_tuples(a, b).wall, w2)
        /\ ~add_wall_tuples(Game, a, b).ok

\* C5: every wall of the walls set is anchored at an interior intersection, and
\* add_wall / add_wall_tuples refuse a wall anchored on or outside the border
\* and leave the walls set unchanged.
C5_WallsInterior ==
    /\ \A w \in walls : interior(w)
    /\ \A d \in {"Horizontal", "Vertical"}, x \in -1..(N + 1), y \in -1..(N + 1) :
           LET w == [d |-> d, x |-> x, y |-> y]
           IN  ~interior(w) => /\ ~add_wall(Game, w).ok
                               /\ add_wall(Game, w).game.walls = walls
    /\ \A a \in TuplePoints, b \in TuplePoints :
           LET w == from_tuples(a, b)
           IN  (w.ok /\ ~interior(w.wall))
                   => /\ ~add_wall_tuples(Game, a, b).ok
                      /\ add_wall_tuples(Game, a, b).game.walls = walls

\* C5 witness: a wall was accepted next to the border, and the request for the
\* wall one further out, on the border, is refused.
C5_Witness ==
    \E w \in walls :
        /\ w.x = N - 1
        /\ ~add_wall(Game, shift(w, 1, 0)).ok

\* u and v are exactly 2 apart, as integers
Apart2(u, v) ==
    \/ u <= I32_MAX - 2 /\ v = u + 2
    \/ v <= I32_MAX - 2 /\ u = v + 2

\* the wall anchored at the midpoint of a and b, for a and b aligned and 2 apart
midpoint_wall(a, b) ==
    IF a[2] = b[2]
    THEN horizontal((IF a[1] < b[1] THEN a[1] ELSE b[1]) + 1, a[2])
    ELSE vertical(a[1], (IF a[2] < b[2] THEN a[2] ELSE b[2]) + 1)

\* C6: from_tuples(a, b) succeeds if and only if a and b are axis-aligned and
\* exactly 2 apart, and then returns the wall anchored at their midpoint; and
\* from_tuples(to_tuples(w)) returns w for every wall w.
C6_FromTuplesMidpoint ==
    call.out # None =>
        IF call.fn = "from_tuples"
        THEN LET aligned2 == \/ call.a[2] = call.b[2] /\ Apart2(call.a[1], call.b[1])
                             \/ call.a[1] = call.b[1] /\ Apart2(call.a[2], call.b[2])
             IN  /\ call.out.ok <=> aligned2
                 /\ call.out.ok => call.out.wall = midpoint_wall(call.a, call.b)
        ELSE call.out.ok /\ call.out.wall = call.w

diagonal(a, b) == Abs(a.x - b.x) = 1 /\ Abs(a.y - b.y) = 1

C8_WallBlocksTwoEdges ==
    /\ \A a \in Points, b \in Points :
           /\ unit_step(a, b) =>
                  (has_wall_between(Game, a, b)
                      <=> IF a.y = b.y
                          THEN \/ vertical(Max(a.x, b.x), a.y) \in walls
                               \/ vertical(Max(a.x, b.x), a.y + 1) \in walls
                          ELSE \/ horizontal(a.x, Max(a.y, b.y)) \in walls
                               \/ horizontal(a.x + 1, Max(a.y, b.y)) \in walls)
           /\ has_wall_between(Game, a, b) <=> crossed(walls, a, b)
           /\ has_wall_between(Game, a, b) => ~IsOk(adj(Game, a, b))
    /\ \A w \in walls :
           LET alone == [Game EXCEPT !.walls = {w}]
               blocked == {e \in Points \X Points : has_wall_between(alone, e[1], e[2])}
           IN  /\ blocked = {e \in Points \X Points : blocks(w, e[1], e[2])}
               /\ Cardinality(blocked) = 4
               /\ \A e \in blocked : <<e[2], e[1]>> \in blocked

\* C8 witness: a wall stands and blocks a step between two free cells.
C8_Witness ==
    \E w \in walls, a \in Points, b \in Points :
        /\ blocks(w, a, b)
        /\ ~occupied(b)
        /\ has_wall_between(Game, a, b)
        /\ ~IsOk(adj(Game, a, b))

linear2(a, b) ==
    \/ a.x = b.x /\ Abs(a.y - b.y) = 2
    \/ a.y = b.y /\ Abs(a.x - b.x) = 2

mid(a, b) == p((a.x + b.x) \div 2, (a.y + b.y) \div 2)

\* C10: a move of a registered player from its cell to a cell 2 away in a
\* straight line is accepted if and only if another player's pawn stands on the
\* cell between, no wall lies across either of the two unit edges, and the end
\* cell is in bounds and free.
C10_LinearJump ==
    \A n \in DOMAIN players, end \in PosInputs :
        LET start == players[n].p
            m == mid(start, end)
        IN  linear2(start, end) =>
                (move_player_to(Game, n, end).ok
                    <=> /\ \E o \in DOMAIN players : o # n /\ players[o].p = m
                        /\ ~crossed(walls, start, m)
                        /\ ~crossed(walls, m, end)
                        /\ end \in Points
                        /\ ~occupied(end))

\* C10 witness: a pawn has just jumped over the other pawn, and walls stand.
C10_Witness ==
    /\ walls # {}
    /\ \E n \in DOMAIN players, o \in DOMAIN players :
           /\ players[n].p_last # None
           /\ linear2(players[n].p_last, players[n].p)
           /\ players[o].p = mid(players[n].p_last, players[n].p)

\* the cell behind opp as seen from start
far_side(start, opp) == p(opp.x + (opp.x - start.x), opp.y + (opp.y - start.y))

\* n's pawn can corner-jump to end round o's pawn: o stands next to start and to
\* end, no wall lies across start-o or o-end, and the far side of o is closed
\* (by a wall when edge_closes is FALSE, by a wall or the board edge when TRUE)
corner_round(n, o, end, edge_closes) ==
    LET start == players[n].p
        opp == players[o].p
    IN  /\ o # n
        /\ unit_step(start, opp)
        /\ unit_step(opp, end)
        /\ ~crossed(walls, start, opp)
        /\ ~crossed(walls, opp, end)
        /\ \/ crossed(walls, opp, far_side(start, opp))
           \/ edge_closes /\ far_side(start, opp) \notin Points

\* C11: a diagonal move is rejected unless the pawn of another player stands
\* next to start with its far side closed and no wall lies between start and
\* that pawn or between that pawn and end; in particular it is rejected when
\* the straight jump is open and when no pawn stands next to start.
C11_DiagonalRejected ==
    \A n \in DOMAIN players, end \in PosInputs :
        (diagonal(players[n].p, end) /\ move_player_to(Game, n, end).ok)
            => \E o \in DOMAIN players : corner_round(n, o, end, TRUE)

\* C11 witness: the other pawn stands next to start with the straight jump over
\* it open and no wall on the way, and the diagonal move round it is rejected.
C11_Witness ==
    \E n \in DOMAIN players, o \in DOMAIN players, end \in Points :
        /\ o # n
        /\ diagonal(players[n].p, end)
        /\ unit_step(players[n].p, players[o].p)
        /\ unit_step(players[o].p, end)
        /\ far_side(players[n].p, players[o].p) \in Points
        /\ ~crossed(walls, players[o].p, far_side(players[n].p, players[o].p))
        /\ ~crossed(walls, players[n].p, players[o].p)
        /\ ~crossed(walls, players[o].p, end)
        /\ ~move_player_to(Game, n, end).ok

\* C12: a diagonal move to a free cell of the board is accepted when the pawn
\* of another player stands next to start, the far side of that pawn is closed
\* by a wall or by the board edge, and no wall lies between start and that pawn
\* or between that pawn and end.
C12_CornerJumpAccepted ==
    \A n \in DOMAIN players, end \in Points :
        (/\ diagonal(players[n].p, end)
         /\ ~occupied(end)
         /\ \E o \in DOMAIN players : corner_round(n, o, end, TRUE))
            => move_player_to(Game, n, end).ok

\* C13: every player's position is on the board, and move_player_to and
\* move_player reject a destination off the board and leave the game unchanged.
C13_PositionsInBounds ==
    /\ \A n \in DOMAIN players : players[n].p \in Points
    /\ \A n \in DOMAIN players, pos \in PosInputs \ Points :
           /\ ~move_player_to(Game, n, pos).ok
           /\ move_player_to(Game, n, pos).game = Game
    /\ \A n \in DOMAIN players, step \in {"UP", "DOWN", "LEFT", "RIGHT"} :
           LET pt == players[n].p
               dest == IF step = "UP" THEN up(pt) ELSE IF step = "DOWN" THEN down(pt)
                       ELSE IF step = "LEFT" THEN left(pt) ELSE right(pt)
           IN  dest \notin Points => /\ ~move_player(Game, n, step).ok
                                     /\ move_player(Game, n, step).game = Game

\* C13 witness: player 0 has walked to its goal edge and the step past it is
\* rejected, as is the step of a player on its start edge back past that edge.
C13_Witness ==
    /\ \E n \in DOMAIN players :
           /\ players[n].id = 0 /\ players[n].p.y = N - 1
           /\ players[n].p_last # None
           /\ ~move_player(Game, n, "DOWN").ok
    /\ \E n \in DOMAIN players :
           /\ players[n].id = 1 /\ players[n].p.y = N - 1
           /\ ~move_player(Game, n, "DOWN").ok

\* C14: no two players stand on the same cell.
C14_NoSharedCell ==
    \A n \in DOMAIN players, o \in DOMAIN players :
        n # o => players[n].p # players[o].p

\* C15: a move_player_to or move_player call that returns an error leaves the
\* players (positions and last positions), the walls and the turn unchanged.
C15_RejectedMoveLeavesGame ==
    /\ \A n \in Names, pos \in PosInputs :
           ~move_player_to(Game, n, pos).ok => move_player_to(Game, n, pos).game = Game
    /\ \A n \in DOMAIN players, dir \in Dirs :
           ~move_player(Game, n, dir).ok => move_player(Game, n, dir).game = Game

\* C15 witness: a player that has moved before is refused a step across a wall,
\* a step off the board, a jump and an unknown direction.
C15_Witness ==
    \E n \in DOMAIN players :
        /\ players[n].p_last # None
        /\ \E dir \in Dirs :
               move_player(Game, n, dir).msg = "There is a wall between a and b."
        /\ \E dir \in Dirs : move_player(Game, n, dir).msg = "Point b is not in bounds"
        /\ \E pos \in Points : move_player_to(Game, n, pos).msg = "Invalid linear jump."
        /\ move_player(Game, n, "SIDEWAYS").msg = "Unknown direction"

\* the wall allowance of every player of g is 10 and g is started with index 0
started_with_allowances(g) ==
    /\ g.turn = 0
    /\ \A n \in DOMAIN g.players : g.players[n].walls = 10

\* C16: while fewer than 2 players are registered an add_player call with a new
\* name succeeds, and the one that registers the second player sets the wall
\* allowances and starts the game with active index 0; with 2 players
\* registered every add_player call fails and leaves the registry unchanged;
\* the registry never holds more than 2 players.
C16_TwoRegistrations ==
    /\ len(Game) <= 2
    /\ \A name \in Names, key \in Keys :
           LET r == add_player(Game, name, key)
           IN  /\ (len(Game) < 2 /\ name \notin DOMAIN players)
                      => /\ r.ok
                         /\ len(r.game) = len(Game) + 1
                         /\ len(r.game) = 2 => started_with_allowances(r.game)
               /\ len(Game) = 2 => ~r.ok /\ r.game.players = players

\* C17: add_player fails and leaves players, walls and turn unchanged whenever
\* the game has left Setup or the name is registered.
C17_RegistrationClosed ==
    \A name \in Names, key \in Keys \cup {"k2"} :
        (turn # GAME_NOT_STARTED \/ name \in DOMAIN players)
            => /\ ~add_player(Game, name, key).ok
               /\ add_player(Game, name, key).game = Game

\* C17 witness: in Setup a registered player has moved off its start cell, and
\* add_player with its name and another key is refused.
C17_Witness ==
    /\ turn = GAME_NOT_STARTED
    /\ \E n \in DOMAIN players :
           /\ players[n].p_last # None
           /\ add_player(Game, n, "k2").msg = "Player already registered."

\* C18: the wall allowance of every player is 0 until the second player is
\* registered, 10 once the 2-player game has started, and no step increases it.
C18_AllowanceFixed ==
    /\ [](\A n \in DOMAIN players :
              players[n].walls = IF len(Game) = 2 THEN 10 ELSE 0)
    /\ [][\A n \in DOMAIN players :
              (len(Game) = 2 /\ n \in DOMAIN players')
                  => players'[n].walls <= players[n].walls]_vars

\* C18 witness: the 2-player game has started, both allowances are 10, and
\* walls have been placed and pawns moved since.
C18_Witness ==
    /\ len(Game) = 2
    /\ turn >= 0
    /\ walls # {}
    /\ \A n \in DOMAIN players : players[n].walls = 10 /\ players[n].p_last # None

(***************************************************************************)
(* The HTTP handlers of src/src/server.rs.  They are written against a     *)
(* Game that carries its lifecycle as game.state (Setup, Started(turn),    *)
(* GameOver) and offers increment_turn; the Game of src/src/quoridor.rs    *)
(* carries it as turn: i32.  state and increment_turn read and advance     *)
(* that turn as the specification describes the lifecycle.                 *)
(***************************************************************************)
state(g) ==
    IF g.turn >= 0 THEN [kind |-> "Started", turn |-> g.turn]
    ELSE [kind |-> "Setup", turn |-> g.turn]

\* the turn advance of the repository is Game::next_turn
increment_turn(g) == next_turn(g).game

\* check_player! without the comparison of the player's id with the turn
check_player_any_turn(g, name, key) ==
    IF name \notin DOMAIN g.players THEN "Player not found"
    ELSE IF g.players[name].key # key THEN "Unauthorized move."
    ELSE IF state(g).kind = "Setup" THEN "Waiting on other players."
    ELSE IF state(g).kind = "GameOver" THEN "The game is over!"
    ELSE Ok

\* check_player! without the comparison of the key
check_player_no_key(g, name, key) ==
    IF name \notin DOMAIN g.players THEN "Player not found"
    ELSE IF state(g).kind = "Setup" THEN "Waiting on other players."
    ELSE IF state(g).kind = "GameOver" THEN "The game is over!"
    ELSE IF g.players[name].id # state(g).turn THEN "Not your turn."
    ELSE Ok

check_player(g, name, key) ==
    IF name \notin DOMAIN g.players THEN "Player not found"
    ELSE IF g.players[name].key # key THEN "Unauthorized move."
    ELSE IF state(g).kind = "Setup" THEN "Waiting on other players."
    ELSE IF state(g).kind = "GameOver" THEN "The game is over!"
    ELSE IF g.players[name].id # state(g).turn THEN "Not your turn."
    ELSE Ok

\* try_call!: the response of a call r of a Game method
try_call(r) == [ok |-> r.ok, msg |-> r.msg, game |-> r.game]

\* take_turn! without the call of increment_turn
after_check_no_increment(r) == try_call(r)

\* the part of take_turn! after check_player!: r is the call made on g
after_check(r) ==
    IF r.ok THEN [ok |-> TRUE, msg |-> r.msg, game |-> increment_turn(r.game)]
    ELSE try_call(r)

bad_request(g, msg) == [ok |-> FALSE, msg |-> msg, game |-> g]

register_player(g, name, key) == try_call(add_player(g, name, key))

server_move_player_to(g, name, key, pos) ==
    IF ~IsOk(check_player(g, name, key)) THEN bad_request(g, check_player(g, name, key))
    ELSE after_check(move_player_to(g, name, pos))

server_move_player(g, name, key, dir) ==
    IF ~IsOk(check_player(g, name, key)) THEN bad_request(g, check_player(g, name, key))
    ELSE after_check(move_player(g, name, dir))

place_wall(g, name, key, a, b) ==
    LET wall == from_tuples(a, b)
    IN  IF ~wall.ok THEN bad_request(g, "Wall points must distance 2 away")
        ELSE IF ~IsOk(check_player(g, name, key))
        THEN bad_request(g, check_player(g, name, key))
        ELSE after_check(add_wall(g, wall.wall))

ReqKeys == Keys \cup {"k2"}

RegisterPlayer(name, key) ==
    LET r == register_player(Game, name, key)
    IN  /\ Set(r.game)
        /\ UNCHANGED <<nmoves, call, session>>

ServerMovePlayerTo(name, key, pos) ==
    LET r == server_move_player_to(Game, name, key, pos)
    IN  /\ r.ok => nmoves < MaxMoves
        /\ Set(r.game)
        /\ nmoves' = IF r.ok THEN nmoves + 1 ELSE nmoves
        /\ UNCHANGED <<call, session>>

ServerMovePlayer(name, key, dir) ==
    LET r == server_move_player(Game, name, key, dir)
    IN  /\ r.ok => nmoves < MaxMoves
        /\ Set(r.game)
        /\ nmoves' = IF r.ok THEN nmoves + 1 ELSE nmoves
        /\ UNCHANGED <<call, session>>

PlaceWall(name, key, a, b) ==
    LET r == place_wall(Game, name, key, a, b)
    IN  /\ r.ok => Cardinality(walls) < MaxWalls
        /\ Set(r.game)
        /\ UNCHANGED <<nmoves, call, session>>

NextServer ==
    \/ \E name \in Names, key \in Keys : RegisterPlayer(name, key)
    \/ \E name \in Names, key \in ReqKeys, pos \in PosInputs :
           ServerMovePlayerTo(name, key, pos)
    \/ \E name \in Names, key \in ReqKeys, dir \in Dirs :
           ServerMovePlayer(name, key, dir)
    \/ \E name \in Names, key \in ReqKeys, a \in TuplePoints, b \in TuplePoints :
           PlaceWall(name, key, a, b)

SpecServer == Init /\ [][NextServer]_vars

(***************************************************************************)
(* The threads of src/src/server.rs.  listen keeps the Game in an          *)
(* Arc<RwLock<Game>> and a (Mutex<bool>, Condvar) pair.  A mutating route  *)
(* runs its handler under game.write(), drops the guard, and on status Ok  *)
(* locks and unlocks the mutex and calls notify_all; a GET route runs      *)
(* under game.read(); wait_for_activity locks the mutex and waits once on  *)
(* the condition variable.  pc is the position of each thread:             *)
(*   mutating  idle, handler, simulate, lock, notify                       *)
(*   reading   idle, reading                                               *)
(*   waiting   idle, called, locked, blocked, woken                        *)
(* held is the wall is_valid_wall has inserted for its check, with the     *)
(* player of the request.  since records, for the claims, whether a        *)
(* mutating request has succeeded since a waiter's call began: "no",       *)
(* "early" (before the waiter blocked or after it woke) or "blocked"       *)
(* (while it was blocked on the condition variable).                       *)
(***************************************************************************)
holds_write(at) == at \in {"handler", "simulate"}
holds_read(at) == at = "reading"

\* RwLock::write returns when no guard is out
write_ready(pcs) ==
    \A t \in Threads : ~holds_write(pcs[t]) /\ ~holds_read(pcs[t])

\* a read lock handed out whatever guards are out
read_ready_always(pcs) == TRUE

\* RwLock::read returns when no write guard is out
read_ready(pcs) == \A t \in Threads : ~holds_write(pcs[t])

\* a mutex that Condvar::wait keeps while the thread is blocked
mutex_kept_in_wait(pcs) == \A w \in Waiters : pcs[w] \notin {"locked", "blocked"}

\* Mutex::lock returns when no guard is out; the guard of a mutating route
\* is dropped in the statement that takes it
mutex_free(pcs) == \A w \in Waiters : pcs[w] # "locked"

\* Condvar::notify_one: one of the blocked threads
notify_one(pcs) ==
    IF \E w \in Waiters : pcs[w] = "blocked"
    THEN {CHOOSE w \in Waiters : pcs[w] = "blocked"}
    ELSE {}

\* Condvar::notify_all: the threads it wakes
notify_all(pcs) == {w \in Waiters : pcs[w] = "blocked"}

\* is_valid_wall reaches self.walls.insert(*wall) for the wall of the request
reaches_insert(g, name, key, a, b) ==
    /\ from_tuples(a, b).ok
    /\ IsOk(check_player(g, name, key))
    /\ is_valid_wall(g, from_tuples(a, b).wall).why \in {"Wall eliminates path", "valid"}

\* the successful mutation is recorded for every waiter whose call has begun
noted(ok) ==
    [w \in Waiters |->
        IF ~ok \/ pc[w] = "idle" THEN since[w]
        ELSE IF pc[w] = "blocked" THEN "blocked"
        ELSE IF since[w] = "no" THEN "early"
        ELSE since[w]]

\* the end of a handler with response r: the write guard is dropped, and the
\* route goes on to notify when the status is Ok
Respond(m, r) ==
    /\ Set(r.game)
    /\ pc' = [pc EXCEPT ![m] = IF r.ok THEN "lock" ELSE "idle"]
    /\ since' = noted(r.ok)
    /\ held' = NoHeld

\* the turns a session may take
MaxTurns == 2
turns_left == nmoves + Cardinality(walls) < MaxTurns

WallEnds == {to_tuples(w) : w \in WallInputs}

\* game_clone.write()
Write(m) ==
    /\ pc[m] = "idle"
    /\ write_ready(pc)
    /\ pc' = [pc EXCEPT ![m] = "handler"]
    /\ UNCHANGED <<players, walls, turn, nmoves, call, held, since>>

HandleRegisterPlayer(m, name, key) ==
    /\ pc[m] = "handler"
    /\ Respond(m, register_player(Game, name, key))
    /\ UNCHANGED <<nmoves, call>>

HandleMovePlayerTo(m, name, key, pos) ==
    LET r == server_move_player_to(Game, name, key, pos)
    IN  /\ pc[m] = "handler"
        /\ r.ok => turns_left /\ nmoves < MaxMoves
        /\ Respond(m, r)
        /\ nmoves' = IF r.ok THEN nmoves + 1 ELSE nmoves
        /\ UNCHANGED call

HandleMovePlayer(m, name, key, dir) ==
    LET r == server_move_player(Game, name, key, dir)
    IN  /\ pc[m] = "handler"
        /\ r.ok => turns_left /\ nmoves < MaxMoves
        /\ Respond(m, r)
        /\ nmoves' = IF r.ok THEN nmoves + 1 ELSE nmoves
        /\ UNCHANGED call

\* place_wall up to the insert of is_valid_wall, or to its response when the
\* request is refused before
HandlePlaceWall(m, name, key, a, b) ==
    /\ pc[m] = "handler"
    /\ place_wall(Game, name, key, a, b).ok => turns_left /\ Cardinality(walls) < MaxWalls
    /\ IF reaches_insert(Game, name, key, a, b)
       THEN /\ walls' = walls \cup {from_tuples(a, b).wall}
            /\ held' = [name |-> name, wall |-> from_tuples(a, b).wall]
            /\ pc' = [pc EXCEPT ![m] = "simulate"]
            /\ UNCHANGED <<players, turn, since>>
       ELSE Respond(m, place_wall(Game, name, key, a, b))
    /\ UNCHANGED <<nmoves, call>>

\* the rest of is_valid_wall (the paths are checked, the wall is removed), of
\* add_wall and of take_turn!
FinishPlaceWall(m) ==
    /\ pc[m] = "simulate"
    /\ LET inserted == Game
           win_conditions ==
               \A i \in DOMAIN inserted.players : check_win_condition(inserted, i)
           removed == [inserted EXCEPT !.walls = inserted.walls \ {held.wall}]
       IN  IF win_conditions
           THEN Respond(m, after_check(
                    [ok |-> TRUE, msg |-> "Added wall.",
                     game |-> [removed EXCEPT !.walls = removed.walls \cup {held.wall}]]))
           ELSE Respond(m, after_check(
                    [ok |-> FALSE, msg |-> "Invalid wall.", game |-> removed]))
    /\ UNCHANGED <<nmoves, call>>

\* lock.lock().ok()
Lock(m) ==
    /\ pc[m] = "lock"
    /\ mutex_free(pc)
    /\ pc' = [pc EXCEPT ![m] = "notify"]
    /\ UNCHANGED <<players, walls, turn, nmoves, call, held, since>>

\* cvar.notify_all(), and the response is returned
NotifyAll(m) ==
    /\ pc[m] = "notify"
    /\ pc' = [t \in Threads |->
                 IF t = m THEN "idle"
                 ELSE IF t \in notify_all(pc) THEN "woken"
                 ELSE pc[t]]
    /\ UNCHANGED <<players, walls, turn, nmoves, call, held, since>>

\* temp.read() of a GET route
Read(r) ==
    /\ pc[r] = "idle"
    /\ read_ready(pc)
    /\ pc' = [pc EXCEPT ![r] = "reading"]
    /\ UNCHANGED <<players, walls, turn, nmoves, call, held, since>>

\* get_status or get_ascii builds the payload and the guard is dropped
GetStatus(r) ==
    /\ pc[r] = "reading"
    /\ pc' = [pc EXCEPT ![r] = "idle"]
    /\ UNCHANGED <<players, walls, turn, nmoves, call, held, since>>

\* a /wait_for_activity request arrives
WaitForActivity(w) ==
    /\ pc[w] = "idle"
    /\ pc' = [pc EXCEPT ![w] = "called"]
    /\ since' = [since EXCEPT ![w] = "no"]
    /\ UNCHANGED <<players, walls, turn, nmoves, call, held>>

\* let taken = lock.lock().unwrap()
LockWaiter(w) ==
    /\ pc[w] = "called"
    /\ mutex_free(pc)
    /\ pc' = [pc EXCEPT ![w] = "locked"]
    /\ UNCHANGED <<players, walls, turn, nmoves, call, held, since>>

\* cvar.wait(taken) gives the mutex up and blocks
Wait(w) ==
    /\ pc[w] = "locked"
    /\ pc' = [pc EXCEPT ![w] = "blocked"]
    /\ UNCHANGED <<players, walls, turn, nmoves, call, held, since>>

\* Condvar::wait may wake without a notification
SpuriousWakeup(w) ==
    /\ pc[w] = "blocked"
    /\ pc' = [pc EXCEPT ![w] = "woken"]
    /\ UNCHANGED <<players, walls, turn, nmoves, call, held, since>>

\* wait takes the mutex again, the guard is dropped and "A turn was taken" is
\* returned
Return(w) ==
    /\ pc[w] = "woken"
    /\ mutex_free(pc)
    /\ pc' = [pc EXCEPT ![w] = "idle"]
    /\ since' = [since EXCEPT ![w] = "no"]
    /\ UNCHANGED <<players, walls, turn, nmoves, call, held>>

Mutate(m) ==
    \/ Write(m)
    \/ \E name \in Names, key \in Keys : HandleRegisterPlayer(m, name, key)
    \/ \E name \in Names, key \in ReqKeys, pos \in PosInputs :
           HandleMovePlayerTo(m, name, key, pos)
    \/ \E name \in Names, key \in ReqKeys, dir \in Dirs :
           HandleMovePlayer(m, name, key, dir)
    \/ \E name \in Names, key \in ReqKeys, ends \in WallEnds :
           HandlePlaceWall(m, name, key, ends[1], ends[2])
    \/ FinishPlaceWall(m)
    \/ Lock(m)
    \/ NotifyAll(m)

\* mutating requests and reads of the game
NextSession ==
    \/ \E m \in Mutators : Mutate(m)
    \/ \E r \in Readers : Read(r)
    \/ \E r \in Readers : GetStatus(r)

SpecSession == Init /\ [][NextSession]_vars

\* mutating requests and waits for the next turn
NextNotify ==
    \/ Mutate("m1")
    \/ \E w \in Waiters : WaitForActivity(w)
    \/ \E w \in Waiters : LockWaiter(w)
    \/ \E w \in Waiters : Wait(w)
    \/ \E w \in Waiters : SpuriousWakeup(w)
    \/ \E w \in Waiters : Return(w)

SpecNotify == Init /\ [][NextNotify]_vars

\* one mutating request, one read and one wait for the next turn at a time
NextAll ==
    \/ Mutate("m1")
    \/ Read("r1")
    \/ GetStatus("r1")
    \/ WaitForActivity("w1")
    \/ LockWaiter("w1")
    \/ Wait("w1")
    \/ SpuriousWakeup("w1")
    \/ Return("w1")

SpecAll == Init /\ [][NextAll]_vars

\* a handler takes no lock: it runs to its response, or to the insert of
\* is_valid_wall and from there to its response
handler_returns == []<>(pc["m1"] \notin {"handler", "simulate"})

\* a thread that is running goes on running, and a thread that can take the
\* mutex again and again takes it; requests need not arrive and Condvar::wait
\* need not wake by itself
FairAll ==
    /\ SpecAll
    /\ handler_returns
    /\ SF_vars(Lock("m1"))
    /\ WF_vars(NotifyAll("m1"))
    /\ WF_vars(GetStatus("r1"))
    /\ WF_vars(Wait("w1"))


(***************************************************************************)
(* Turns.  src/src/quoridor.rs has Turn = PlaceWall(Wall) | Move(Point)    *)
(* with Game::do_turn and Game::undo_turn; src/src/turn.rs has             *)
(* Turn = Move(Direction) | PlaceWall(Wall) | Jump(Direction) with         *)
(* Turn::take and Turn::undo, written against a Game whose move_player     *)
(* takes a board::Direction.                                               *)
(***************************************************************************)
PlaceWallTurn(w) == [kind |-> "PlaceWall", wall |-> w, p |-> p(0, 0), dir |-> "Invalid"]
MoveTurn(pos) == [kind |-> "Move", wall |-> NoWall, p |-> pos, dir |-> "Invalid"]
MoveDir(d) == [kind |-> "MoveDir", wall |-> NoWall, p |-> p(0, 0), dir |-> d]
JumpDir(d) == [kind |-> "JumpDir", wall |-> NoWall, p |-> p(0, 0), dir |-> d]

do_turn(g, name, t) ==
    IF t.kind = "PlaceWall" THEN add_wall(g, t.wall).game
    ELSE move_player_to(g, name, t.p).game

\* undo_turn that leaves the wall of a PlaceWall turn in place
undo_turn_keeps_wall(g, name, t) ==
    IF t.kind = "PlaceWall" THEN g
    ELSE IF name \in DOMAIN g.players /\ g.players[name].p_last # None
    THEN [g EXCEPT !.players[name].p = g.players[name].p_last]
    ELSE g

undo_turn(g, name, t) ==
    IF t.kind = "PlaceWall" THEN [g EXCEPT !.walls = (g.walls \ {t.wall}) \ {t.wall}]
    ELSE IF name \in DOMAIN g.players /\ g.players[name].p_last # None
    THEN [g EXCEPT !.players[name].p = g.players[name].p_last]
    ELSE g

Directions ==
    {"North", "East", "South", "West",
     "NorthEast", "SouthEast", "SouthWest", "NorthWest", "Invalid"}

reversed(d) ==
    CASE d = "North" -> "South"
      [] d = "East" -> "West"
      [] d = "South" -> "North"
      [] d = "West" -> "East"
      [] d = "NorthEast" -> "SouthWest"
      [] d = "SouthEast" -> "NorthWest"
      [] d = "SouthWest" -> "NorthEast"
      [] d = "NorthWest" -> "SouthEast"
      [] OTHER -> "Invalid"

\* Point::shift: north is y - 1, south is y + 1, east is x + 1, west is x - 1
shift_point(pt, d) ==
    CASE d = "North" -> p(pt.x, pt.y - 1)
      [] d = "East" -> p(pt.x + 1, pt.y)
      [] d = "South" -> p(pt.x, pt.y + 1)
      [] d = "West" -> p(pt.x - 1, pt.y)
      [] d = "NorthEast" -> p(pt.x + 1, pt.y - 1)
      [] d = "SouthEast" -> p(pt.x + 1, pt.y + 1)
      [] d = "SouthWest" -> p(pt.x - 1, pt.y + 1)
      [] d = "NorthWest" -> p(pt.x - 1, pt.y - 1)
      [] OTHER -> pt

\* game.move_player(name, direction) of turn.rs: the pawn is moved to the
\* cell its position is shifted to
move_player_by(g, name, d) ==
    IF name \notin DOMAIN g.players
    THEN [ok |-> FALSE, msg |-> "index: key not found", panic |-> TRUE, game |-> g]
    ELSE move_player_to(g, name, shift_point(g.players[name].p, d))

\* Turn::take; the results of the calls are dropped
Turn_take(g, name, t) ==
    IF t.kind = "PlaceWall" THEN add_wall(g, t.wall).game
    ELSE move_player_by(g, name, t.dir).game

\* Turn::undo for the player as it stands in g; Jump only evaluates
\* is_valid_jump
Turn_undo(g, name, t) ==
    IF t.kind = "PlaceWall" THEN [g EXCEPT !.walls = g.walls \ {t.wall}]
    ELSE IF t.kind = "MoveDir" THEN move_player_by(g, name, reversed(t.dir)).game
    ELSE g

Turns == {PlaceWallTurn(w) : w \in WallInputs} \cup {MoveTurn(pos) : pos \in PosInputs}
DirTurns ==
    {PlaceWallTurn(w) : w \in WallInputs}
        \cup {MoveDir(d) : d \in Directions} \cup {JumpDir(d) : d \in Directions}

\* the moves a turn applies are counted like those of move_player_to
Applied(g) ==
    /\ Set(g)
    /\ Cardinality(g.walls) <= MaxWalls
    /\ nmoves' = IF \E n \in DOMAIN players : g.players[n].p_last # players[n].p_last
                 THEN nmoves + 1 ELSE nmoves
    /\ nmoves' <= MaxMoves
    /\ UNCHANGED <<call, session>>

DoTurn(name, t) ==
    /\ t \in Turns
    /\ Applied(do_turn(Game, name, t))

UndoTurn(name, t) ==
    /\ Set(undo_turn(Game, name, t))
    /\ UNCHANGED <<nmoves, call, session>>

TurnTake(name, t) ==
    /\ name \in DOMAIN players
    /\ Applied(Turn_take(Game, name, t))

TurnUndo(name, t) ==
    /\ name \in DOMAIN players
    /\ Applied(Turn_undo(Game, name, t))

NextTurns ==
    \/ \E name \in Names, key \in Keys : AddPlayer(name, key)
    \/ \E name \in Names, t \in Turns : DoTurn(name, t)
    \/ \E name \in Names, t \in Turns : UndoTurn(name, t)
    \/ \E name \in Names, t \in DirTurns : TurnTake(name, t)
    \/ \E name \in Names, t \in DirTurns : TurnUndo(name, t)

SpecTurns == Init /\ [][NextTurns]_vars

(***************************************************************************)
(* dijkstra round by round.  The nodes are kept in a HashSet, whose        *)
(* iteration order is not fixed: the node removed in a round is any node   *)
(* of least distance (any node at all when every remaining distance is     *)
(* MAX_DIST).  call holds the run: src, dist, prev, the unvisited nodes    *)
(* and, after reconstruct_path, dst and the path.  The game is borrowed    *)
(* for the run (&self) and does not change under it.                       *)
(***************************************************************************)
\* the nodes the scan "if dist[node] < min" may end on
picks(dist, nodes) == {u \in nodes : \A n \in nodes : dist[u] <= dist[n]}

\* prev.insert(u, *v): the link is stored the wrong way round
relax_prev_reversed(g, dist, prev, u) ==
    LET hit == {v \in Points :
                   in_window(u, v) /\ dist[u] + 1 < dist[v] /\ IsOk(adj(g, u, v))}
    IN  [v \in DOMAIN prev \cup (IF hit = {} THEN {} ELSE {u}) |->
            IF v = u /\ hit # {} THEN CHOOSE h \in hit : TRUE ELSE prev[v]]

\* prev.insert(*v, u) for every v that relax gives a shorter distance
relax_prev(g, dist, prev, u) ==
    LET hit == {v \in Points :
                   in_window(u, v) /\ dist[u] + 1 < dist[v] /\ IsOk(adj(g, u, v))}
    IN  [v \in DOMAIN prev \cup hit |-> IF v \in hit THEN u ELSE prev[v]]

\* the loop of reconstruct_path from u with the path built so far; fuel is
\* the number of rounds followed, done tells whether the loop ended in them
RECURSIVE path_walk(_, _, _, _)
path_walk(prev, u, nodes, fuel) ==
    IF u \notin DOMAIN prev THEN [done |-> TRUE, nodes |-> nodes]
    ELSE IF fuel = 0 THEN [done |-> FALSE, nodes |-> nodes]
    ELSE path_walk(prev, prev[u], <<u>> \o nodes, fuel - 1)

\* a walk that ends visits no cell twice: N * N rounds are enough for it
reconstruct_path(prev, dst) == path_walk(prev, dst, <<>>, N * N)

running == "src" \in DOMAIN call

\* the cells dijkstra is run from: the cell of each pawn, as
\* check_win_condition does, and a corner
Sources == {players[n].p : n \in DOMAIN players} \cup {p(0, 0)}

DijkstraStart(src) ==
    /\ ~running
    /\ src \in Sources
    /\ call' = [src |-> src,
                dist |-> [v \in Points |-> IF v = src THEN 0 ELSE MAX_DIST],
                prev |-> <<>>,
                nodes |-> Points,
                dst |-> src,
                path |-> <<>>]
    /\ UNCHANGED <<players, walls, turn, nmoves, session>>

\* one round of the while loop
Visit(u) ==
    /\ running
    /\ u \in picks(call.dist, call.nodes)
    /\ call' = [call EXCEPT !.nodes = call.nodes \ {u},
                            !.dist = relax(Game, call.dist, u),
                            !.prev = relax_prev(Game, call.dist, call.prev, u)]
    /\ UNCHANGED <<players, walls, turn, nmoves, session>>

\* one call of reconstruct_path on the prev of the run
ReconstructPath(dst) ==
    /\ running
    /\ call.nodes = {}
    /\ call.path = <<>>
    /\ reconstruct_path(call.prev, dst).done
    /\ call' = [call EXCEPT !.dst = dst, !.path = reconstruct_path(call.prev, dst).nodes]
    /\ UNCHANGED <<players, walls, turn, nmoves, session>>

\* return (dist, prev): the borrow of the game ends
DijkstraReturn ==
    /\ running
    /\ call.nodes = {}
    /\ call' = None
    /\ UNCHANGED <<players, walls, turn, nmoves, session>>

NextDijkstra ==
    \/ ~running /\ \E name \in Names, key \in Keys : AddPlayer(name, key)
    \/ ~running /\ \E name \in Names, pos \in PosInputs : MovePlayerTo(name, pos)
    \/ ~running /\ \E wall \in WallInputs : AddWall(wall)
    \/ \E src \in Points : DijkstraStart(src)
    \/ \E u \in Points : Visit(u)
    \/ \E dst \in Points : ReconstructPath(dst)
    \/ DijkstraReturn

SpecDijkstra == Init /\ [][NextDijkstra]_vars

\* C19: in a started 2-player game an accepted add_wall lowers the wall count
\* of one player, the one who placed it, by exactly one and leaves the count of
\* the other unchanged.
C19_WallSpendsAllowance ==
    \A w \in WallInputs :
        (len(Game) = 2 /\ turn >= 0 /\ add_wall(Game, w).ok)
            => \E n \in DOMAIN players :
                   /\ add_wall(Game, w).game.players[n].walls = players[n].walls - 1
                   /\ \A o \in DOMAIN players \ {n} :
                          add_wall(Game, w).game.players[o].walls = players[o].walls

\* a request of player name that the engine would accept: a legal move or wall
acceptable_move(name, pos) == move_player_to(Game, name, pos).ok
acceptable_wall(a, b) == add_wall_tuples(Game, a, b).ok

\* C20: in a started game a move or a wall placement submitted with its key for
\* a registered player whose id is not the turn is answered "Not your turn."
\* (a wall request when its two points form a wall), is rejected whatever its
\* key and content, and leaves players, walls and turn unchanged.
C20_NotYourTurn ==
    \A name \in DOMAIN players, key \in ReqKeys :
        (state(Game).kind = "Started" /\ players[name].id # state(Game).turn) =>
            /\ \A pos \in PosInputs :
                   LET r == server_move_player_to(Game, name, key, pos)
                   IN  /\ ~r.ok /\ r.game = Game
                       /\ key = players[name].key => r.msg = "Not your turn."
            /\ \A dir \in Dirs :
                   LET r == server_move_player(Game, name, key, dir)
                   IN  /\ ~r.ok /\ r.game = Game
                       /\ key = players[name].key => r.msg = "Not your turn."
            /\ \A a \in TuplePoints, b \in TuplePoints :
                   LET r == place_wall(Game, name, key, a, b)
                   IN  /\ ~r.ok /\ r.game = Game
                       /\ (key = players[name].key /\ from_tuples(a, b).ok)
                              => r.msg = "Not your turn."

\* C20 witness: turns have been taken, and the player whose turn it is not
\* submits, with its key, a move and a wall that the engine would accept; both
\* are answered "Not your turn.".
C20_Witness ==
    /\ walls # {}
    /\ nmoves > 0
    /\ \E name \in DOMAIN players :
           /\ state(Game).kind = "Started"
           /\ players[name].id # state(Game).turn
           /\ \E pos \in Points :
                  /\ acceptable_move(name, pos)
                  /\ server_move_player_to(Game, name, players[name].key, pos).msg
                         = "Not your turn."
           /\ \E a \in TuplePoints, b \in TuplePoints :
                  /\ acceptable_wall(a, b)
                  /\ place_wall(Game, name, players[name].key, a, b).msg
                         = "Not your turn."

\* C22: whenever the game is started the turn lies in 0..len-1 and is the id
\* of exactly one registered player, whatever calls (next_turn included) led
\* there.
C22_TurnNamesPlayer ==
    turn >= 0 =>
        /\ turn \in 0..(len(Game) - 1)
        /\ Cardinality({n \in DOMAIN players : players[n].id = turn}) = 1

\* C22 witness: a started 2-player game in which next_turn has passed the turn
\* to the second player and the next call wraps it back to the first.
C22_Witness ==
    /\ len(Game) = 2
    /\ turn = 1
    /\ next_turn(Game).game.turn = 0
    /\ \E n \in DOMAIN players : players[n].id = 1

\* the lifecycle as a rank: Setup, then Started, then GameOver
rank(g) ==
    IF state(g).kind = "Setup" THEN 0
    ELSE IF state(g).kind = "Started" THEN 1
    ELSE 2

\* C23: no step moves the lifecycle backward: a started game never returns to
\* Setup, and in a started game add_player is refused (registration stays
\* closed).
C23_LifecycleForward ==
    [][/\ rank([players |-> players', walls |-> walls', turn |-> turn']) >= rank(Game)
       /\ rank(Game) >= 1 =>
              \A name \in Names, key \in Keys :
                  /\ ~add_player(Game, name, key).ok
                  /\ add_player(Game, name, key).game = Game]_vars

\* C23 witness: a started game in which a pawn has moved and add_player of a
\* name that is not registered is refused with "Game already started".
C23_Witness ==
    /\ turn >= 0
    /\ nmoves > 0
    /\ \E name \in Names :
           /\ name \notin DOMAIN players
           /\ add_player(Game, name, "k1").msg = "Game already started"

\* an accepted move_player_to of a registered player, in a started 2-player
\* game, that ends on a cell of the mover's goal edge
winning_move(name, pos) ==
    /\ len(Game) = 2
    /\ turn >= 0
    /\ name \in DOMAIN players
    /\ pos \in goal_edge(players[name].id)
    /\ move_player_to(Game, name, pos).ok

\* the game after the move and the next_turn call that ends the turn
after_turn(name, pos) == next_turn(move_player_to(Game, name, pos).game).game

\* C24: when an accepted move puts a pawn on a cell of its goal edge, has_won
\* holds of the mover and the turn it ends leaves the game over (turn is
\* GAME_OVER) instead of naming the next player.
C24_GoalEdgeEndsGame ==
    \A name \in Names, pos \in Points :
        winning_move(name, pos) =>
            /\ has_won(move_player_to(Game, name, pos).game.players[name])
            /\ after_turn(name, pos).turn = GAME_OVER
            /\ after_turn(name, pos).turn \notin 0..(len(Game) - 1)

\* C25: once a pawn has reached its goal edge and the turn has ended, every
\* move_player_to, move_player and add_wall call fails and leaves players,
\* walls and turn as they are.
C25_GameOverAbsorbing ==
    \A name \in Names, pos \in Points :
        winning_move(name, pos) =>
            LET over == after_turn(name, pos)
            IN  /\ \A n2 \in Names, pos2 \in PosInputs :
                       /\ ~move_player_to(over, n2, pos2).ok
                       /\ move_player_to(over, n2, pos2).game = over
                /\ \A n2 \in Names, dir \in Dirs :
                       /\ ~move_player(over, n2, dir).ok
                       /\ move_player(over, n2, dir).game = over
                /\ \A w \in WallInputs :
                       /\ ~add_wall(over, w).ok
                       /\ add_wall(over, w).game = over

\* C26: while the game is in Setup (turn is GAME_NOT_STARTED) every
\* move_player_to, move_player and add_wall call is rejected and leaves the
\* game unchanged.
C26_SetupRejectsTurns ==
    turn < 0 =>
        /\ \A name \in DOMAIN players, pos \in PosInputs :
               /\ ~move_player_to(Game, name, pos).ok
               /\ move_player_to(Game, name, pos).game = Game
        /\ \A name \in DOMAIN players, dir \in Dirs :
               /\ ~move_player(Game, name, dir).ok
               /\ move_player(Game, name, dir).game = Game
        /\ \A w \in WallInputs :
               /\ ~add_wall(Game, w).ok
               /\ add_wall(Game, w).game = Game

\* a step in which a pawn changes its cell
moved == 
    /\ DOMAIN players' = DOMAIN players
    /\ \E n \in DOMAIN players : players'[n].p # players[n].p

\* a step in which the wall of a place_wall request is accepted
walled == \E m \in Mutators : pc[m] = "simulate" /\ pc'[m] = "lock"

\* a step in which a mutating request is answered with an error
rejected == \E m \in Mutators : holds_write(pc[m]) /\ pc'[m] = "idle"

C27_ExclusiveMutation ==
    /\ Cardinality({t \in Threads : holds_write(pc[t])}) <= 1
    /\ (\E t \in Threads : holds_write(pc[t])) =>
           \A r \in Threads : ~holds_read(pc[r])
    /\ held # NoHeld => \E m \in Mutators : pc[m] = "simulate"
    /\ \A r \in Readers :
           holds_read(pc[r]) =>
               /\ held.wall \notin walls
               /\ \A other \in Readers : pc[other] = "idle" => read_ready(pc)

\* C27 witness: a thread is between the insert and the remove of
\* is_valid_wall with a wall that closes every path of a player (it will be
\* rejected); the wall is in the game, and reads and writes are held off.
C27_Witness ==
    /\ \E m \in Mutators : pc[m] = "simulate"
    /\ held.wall \in walls
    /\ \E i \in DOMAIN players : ~check_win_condition(Game, i)
    /\ ~read_ready(pc)
    /\ ~write_ready(pc)

\* a mutating request has succeeded and its thread has not notified yet
notifying == \E m \in Mutators : pc[m] \in {"lock", "notify"}

\* C28: the notification of a successful mutating request wakes every thread
\* that is blocked in wait_for_activity at that step; it is sent in a later
\* step than the one that commits the mutation and drops the write guard,
\* and does not change the game, so a read issued by a woken waiter is
\* admitted and sees the mutation; a waiter that was blocked when a request
\* succeeded stays blocked only while that notification is still to come.
C28_Broadcast ==
    /\ [](\A w \in Waiters :
              (pc[w] = "blocked" /\ since[w] = "blocked") => notifying)
    /\ [](notifying => held = NoHeld /\ read_ready(pc))
    /\ [][\A m \in Mutators :
              (pc[m] = "notify" /\ pc'[m] = "idle") =>
                  /\ \A w \in Waiters : pc[w] = "blocked" => pc'[w] = "woken"
                  /\ <<players, walls, turn>>' = <<players, walls, turn>>]_vars

\* C28 witness: in a started game a mutating request has succeeded while both
\* waiters were blocked, its thread has notified, and both are woken.
C28_Witness ==
    /\ turn >= 0
    /\ ~notifying
    /\ \A w \in Waiters : pc[w] = "woken" /\ since[w] = "blocked"

\* C29: wait_for_activity returns only if a mutating request has succeeded
\* since the call began.
C29_ReturnsAfterMutation ==
    [][\A w \in Waiters :
           (pc[w] = "woken" /\ pc'[w] = "idle") => since[w] # "no"]_vars

\* C30: a waiter that is blocked on the condition variable although a
\* mutating request has succeeded since its call began has the notification
\* of such a request still to come: it returns without a further mutation.
C30_NoMissedUpdate ==
    \A w \in Waiters :
        (pc[w] = "blocked" /\ since[w] # "no") => notifying

\* C31: the turn, the only counter of turns the server keeps, never
\* decreases, goes up by exactly one in every step that changes the game (a
\* successful mutating request) and is changed by no other step.
C31_TurnCounter ==
    [][/\ turn' >= turn
       /\ <<players, walls>>' # <<players, walls>> => turn' = turn + 1
       /\ <<players, walls>>' = <<players, walls>> => turn' = turn]_vars

\* C32: from_json of the document of to_json succeeds and gives a game with
\* the same turn, the same walls and the same players, each with its name,
\* id, position and number of walls.
C32_JsonRoundTrip ==
    LET r == from_json(to_json(Game))
    IN  /\ r.ok
        /\ r.game.turn = turn
        /\ r.game.walls = walls
        /\ DOMAIN r.game.players = DOMAIN players
        /\ \A n \in DOMAIN players :
               /\ r.game.players[n].name = players[n].name
               /\ r.game.players[n].id = players[n].id
               /\ r.game.players[n].p = players[n].p
               /\ r.game.players[n].walls = players[n].walls

\* C36: move_player and move_player_to called with a name that is not
\* registered return the error "Player not found." without a panic and leave
\* the game unchanged.
C36_UnknownPlayerIsAnError ==
    \A name \in Names \ DOMAIN players :
        /\ \A pos \in PosInputs :
               LET r == move_player_to(Game, name, pos)
               IN  ~r.ok /\ ~r.panic /\ r.msg = "Player not found." /\ r.game = Game
        /\ \A dir \in Dirs :
               LET r == move_player(Game, name, dir)
               IN  ~r.ok /\ ~r.panic /\ r.msg = "Player not found." /\ r.game = Game

\* C33: undoing an accepted wall placement, by undo_turn or by Turn::undo of
\* PlaceWall(w), removes exactly w: the game, its set of walls and adj(a, b)
\* for every pair of cells are what they were before w was inserted.
C33_UndoWall ==
    \A w \in WallInputs, name \in Names :
        add_wall(Game, w).ok =>
            LET t == PlaceWallTurn(w)
                g1 == do_turn(Game, name, t)
                g2 == undo_turn(g1, name, t)
                h1 == Turn_take(Game, name, t)
                h2 == Turn_undo(h1, name, t)
            IN  /\ g1.walls = walls \cup {w} /\ w \notin walls
                /\ h1 = g1
                /\ g2.walls = walls /\ h2.walls = walls
                /\ g2 = Game /\ h2 = Game
                /\ \A a, b \in Points : adj(g2, a, b) = adj(Game, a, b)

\* a started game with a wall on the board, where a further wall that cuts an
\* edge of the board graph is accepted and its undo opens the edge again
C33_Witness ==
    /\ turn >= 0 /\ walls # {}
    /\ \E w \in WallInputs, name \in DOMAIN players, a, b \in Points :
        /\ add_wall(Game, w).ok
        /\ adj(Game, a, b) = Ok
        /\ adj(do_turn(Game, name, PlaceWallTurn(w)), a, b) # Ok
        /\ adj(undo_turn(do_turn(Game, name, PlaceWallTurn(w)), name, PlaceWallTurn(w)), a, b) = Ok

\* the rest of the game is as it was: the walls, the other players and the
\* active index
others_kept(g, name) ==
    /\ g.walls = walls
    /\ g.turn = turn
    /\ DOMAIN g.players = DOMAIN players
    /\ \A n \in DOMAIN players \ {name} : g.players[n] = players[n]

\* C34: undoing an accepted move (a step or a jump) puts the player back on
\* the cell they moved from and leaves the walls, the other players and the
\* active index as they were, for undo_turn of Move(pos) and for Turn::undo of
\* the Move(d) or Jump(d) that was taken.
C34_UndoMove ==
    \A name \in DOMAIN players :
        /\ \A pos \in Points :
            move_player_to(Game, name, pos).ok =>
                LET g1 == do_turn(Game, name, MoveTurn(pos))
                    g2 == undo_turn(g1, name, MoveTurn(pos))
                IN  g2.players[name].p = players[name].p /\ others_kept(g2, name)
        /\ \A d \in Directions : \A t \in {MoveDir(d), JumpDir(d)} :
            move_player_by(Game, name, d).ok =>
                LET h1 == Turn_take(Game, name, t)
                    h2 == Turn_undo(h1, name, t)
                IN  h2.players[name].p = players[name].p /\ others_kept(h2, name)

\* the undo_turn half of C34 alone
C34_UndoTurnOnly ==
    \A name \in DOMAIN players, pos \in Points :
        move_player_to(Game, name, pos).ok =>
            LET g1 == do_turn(Game, name, MoveTurn(pos))
                g2 == undo_turn(g1, name, MoveTurn(pos))
            IN  g1.players[name].p = pos
                /\ g2.players[name].p = players[name].p /\ others_kept(g2, name)

\* C39: do_turn followed by undo_turn of the same turn leaves the walls and
\* every player's position as they were before do_turn, also when do_turn was
\* rejected.
C39_DoUndoRestores ==
    \A name \in Names, t \in Turns :
        LET g2 == undo_turn(do_turn(Game, name, t), name, t)
        IN  /\ g2.walls = walls
            /\ DOMAIN g2.players = DOMAIN players
            /\ \A n \in DOMAIN players : g2.players[n].p = players[n].p

\* a request's name and key do not pass the first two checks of check_player!
bad_credentials(name, key) ==
    name \notin DOMAIN players \/ players[name].key # key

\* the response of a request refused for its name or key
refused(r) ==
    /\ ~r.ok
    /\ r.game = Game
    /\ r.msg \in {"Player not found", "Unauthorized move.", "Wall points must distance 2 away"}

\* a refused request ends at its handler: nothing of the game or of the
\* waiting threads changes and the route does not go on to notify
ends_unnoticed(m) ==
    /\ UNCHANGED <<players, walls, turn, nmoves, held, since>>
    /\ pc' = [pc EXCEPT ![m] = "idle"]

\* C35: a move or wall request that names an unregistered player, or carries a
\* key that is not that player's, is refused before any game operation runs:
\* the response is an error, the game is unchanged, the turn does not advance
\* and the route ends without notifying a waiting thread (a step of the
\* handler that does not end so is the step of no such request).
C35_BadCredentialsRefused ==
    /\ [](\A name \in Names \cup {"zed"}, key \in ReqKeys :
            bad_credentials(name, key) =>
                /\ check_player(Game, name, key) \in {"Player not found", "Unauthorized move."}
                /\ \A pos \in PosInputs : refused(server_move_player_to(Game, name, key, pos))
                /\ \A dir \in Dirs : refused(server_move_player(Game, name, key, dir))
                /\ \A ends \in WallEnds :
                    /\ refused(place_wall(Game, name, key, ends[1], ends[2]))
                    /\ ~reaches_insert(Game, name, key, ends[1], ends[2]))
    /\ [][\/ pc["m1"] # "handler"
          \/ ends_unnoticed("m1")
          \/ \A name \in Names, key \in ReqKeys :
                bad_credentials(name, key) =>
                    /\ \A pos \in PosInputs : ~HandleMovePlayerTo("m1", name, key, pos)
                    /\ \A dir \in Dirs : ~HandleMovePlayer("m1", name, key, dir)
                    /\ \A ends \in WallEnds :
                        ~HandlePlaceWall("m1", name, key, ends[1], ends[2])]_vars

\* in a started game with a thread blocked in wait_for_activity, the handler
\* holds a request of the player to move, for a move and a wall that would be
\* accepted, under a key that is not the player's
C35_Witness ==
    /\ turn >= 0
    /\ pc["m1"] = "handler"
    /\ \E w \in Waiters : pc[w] = "blocked"
    /\ \E name \in DOMAIN players, key \in ReqKeys :
        /\ players[name].id = turn
        /\ bad_credentials(name, key)
        /\ \E pos \in PosInputs : move_player_to(Game, name, pos).ok
        /\ \E ends \in WallEnds : add_wall(Game, from_tuples(ends[1], ends[2]).wall).ok
        /\ turns_left

\* C40: no interleaving of mutating requests, reads and waits deadlocks: a
\* mutating request that holds the write guard, or stands at the mutex or at
\* notify_all, returns; a read that holds the read guard returns; and the game
\* lock and the mutex are free again and again, so a request that asks for
\* them is served.
C40_NoDeadlock ==
    /\ (pc["m1"] \in {"handler", "simulate", "lock", "notify"}) ~> (pc["m1"] = "idle")
    /\ (pc["r1"] = "reading") ~> (pc["r1"] = "idle")
    /\ []<>write_ready(pc)
    /\ []<>mutex_free(pc)

\* a mutating request stands at the mutex after a wall was placed, while the
\* waiting thread holds the mutex and a read holds the read guard
C40_Witness ==
    /\ pc["m1"] = "lock"
    /\ pc["w1"] = "locked"
    /\ pc["r1"] = "reading"
    /\ walls # {}

\* the cells one accepted adj away from a cell of S
steps_from(g, S) == {v \in Points : \E u \in S : IsOk(adj(g, u, v))}

\* breadth-first distances: d holds the distance of every cell at most k
\* steps from the source, frontier the cells exactly k steps from it
RECURSIVE breadth_first(_, _, _, _)
breadth_first(g, d, frontier, k) ==
    LET fresh == {v \in steps_from(g, frontier) : d[v] = MAX_DIST}
    IN  IF fresh = {} THEN d
        ELSE breadth_first(g, [v \in Points |-> IF v \in fresh THEN k + 1 ELSE d[v]],
                           fresh, k + 1)

\* the length of a shortest path of accepted adj steps from src to every
\* cell, MAX_DIST where there is none
shortest(g, src) ==
    breadth_first(g, [v \in Points |-> IF v = src THEN 0 ELSE MAX_DIST], {src}, 0)

\* C37: when dijkstra(src) has run, dist holds for every cell of the board the
\* length of a shortest path from src in the graph of adj, 0 for src and
\* MAX_DIST for a cell that cannot be reached, whichever node of least
\* distance each round removed.
C37_DijkstraShortest ==
    (running /\ call.nodes = {}) =>
        /\ DOMAIN call.dist = Points
        /\ call.dist[call.src] = 0
        /\ \A d \in {shortest(Game, call.src)} :
            \A v \in Points : call.dist[v] = d[v]
        /\ \A d \in {dijkstra(Game, call.src)} :
            \A v \in Points : call.dist[v] = d[v]

\* a finished run on a board with a wall, in which two cells lie at the same
\* distance (a tie) of at least 2, a cell lies 3 or more steps away and a
\* cell cannot be reached
C37_Witness ==
    /\ running /\ call.nodes = {}
    /\ walls # {}
    /\ \E v, w \in Points : v # w /\ call.dist[v] = call.dist[w] /\ call.dist[v] \in 2..(N * N)
    /\ \E v \in Points : call.dist[v] \in 3..(N * N)
    /\ \E v \in Points : call.dist[v] = MAX_DIST

\* C38: every round of dijkstra removes exactly one unvisited cell, so the
\* loop ends after N * N rounds; src is never a key of prev and the distance
\* of prev[v] is less than that of v, so reconstruct_path ends for every dst,
\* on a path from a cell next to src to dst as long as dist[dst].
C38_Terminates ==
    /\ [](running =>
            /\ call.nodes # {} => picks(call.dist, call.nodes) # {}
            /\ call.src \notin DOMAIN call.prev
            /\ \A v \in DOMAIN call.prev : call.dist[call.prev[v]] < call.dist[v]
            /\ call.nodes = {} =>
                \A dst \in Points : \A r \in {reconstruct_path(call.prev, dst)} :
                    /\ r.done
                    /\ Len(r.nodes) = (IF dst \in DOMAIN call.prev THEN call.dist[dst] ELSE 0)
                    /\ r.nodes # <<>> =>
                        r.nodes[Len(r.nodes)] = dst /\ call.prev[r.nodes[1]] = call.src)
    /\ [][(running /\ running') =>
            \/ call'.nodes = call.nodes /\ call'.dist = call.dist /\ call'.prev = call.prev
            \/ \E u \in call.nodes : call'.nodes = call.nodes \ {u}]_vars

\* a finished run whose path to the cell of reconstruct_path has 3 or more
\* cells
C38_Witness ==
    /\ running /\ call.nodes = {}
    /\ Len(call.path) >= 3
    /\ call.path[Len(call.path)] = call.dst
    /\ walls # {}

====
